---- MODULE Spec2Model ----
(***************************************************************************)
(* Model of the big-number library big_numbers.c: a Bnum is a heap struct  *)
(* that owns a doubly linked list of Blocks (digits, least significant     *)
(* first).  The heap is modelled explicitly (malloc / free, pointers), the *)
(* library functions are operators that take a heap and return the heap    *)
(* they leave behind, and the state machine is a single-threaded caller    *)
(* that holds Bnum pointers and calls the library.                         *)
(*                                                                         *)
(* Block width.  The source has BLOCK_SIZE 32 with uint32_t digits and     *)
(* uint64_t intermediates.  TLC's integers are 32 bit, so the model keeps  *)
(* the algorithms and the 1:2 ratio of the two widths and scales the       *)
(* digit width down: a digit has BLOCK_SIZE bits, an intermediate (and the *)
(* native argument of Bnum_create) has 2 * BLOCK_SIZE bits.  "2^32 - 1" of *)
(* the source is BLOCK_MASK here.                                          *)
(***************************************************************************)
EXTENDS Integers, Sequences, FiniteSets, TLC

\* ------------------------------------------------------------------ bounds
\* number of library calls the caller makes
MaxCalls == 3
\* largest exponent the caller passes to Bnum_pow
MaxExp == 3
\* largest digit count of a result the caller asks for
MaxBlocks == 7

\* --------------------------------------------------------- program constants
BLOCK_SIZE == 2
BASE == 2 ^ BLOCK_SIZE
BLOCK_MASK == BASE - 1
\* range of uint64_t relative to the block width: two blocks
WORD64 == BASE * BASE
NULL == 0

\* (uint32_t) x
U32(x) == x % BASE
\* x & BLOCK_MASK, BLOCK_MASK being 2^BLOCK_SIZE - 1
AndMask(x) == x % (BLOCK_MASK + 1)

\* --------------------------------------------------------------------- heap
\* bnums / blocks: contents of every struct ever allocated (a freed struct
\* keeps its stale contents); live: addresses allocated and not freed;
\* frees: how many times free() was called on an address; fault: some freed
\* address was dereferenced (undefined behaviour in C); brk: next address.
EmptyHeap ==
  [bnums |-> <<>>, blocks |-> <<>>, live |-> {}, frees |-> <<>>,
   fault |-> FALSE, brk |-> 1]

malloc(h) == [h EXCEPT !.brk = @ + 1, !.live = @ \cup {h.brk}]

free(h, p) ==
  [h EXCEPT !.live = @ \ {p},
            !.frees = IF p \in DOMAIN @ THEN [@ EXCEPT ![p] = @ + 1]
                      ELSE @ @@ (p :> 1),
            !.fault = @ \/ p \notin h.live]

\* a read or write through pointer p
Deref(h, p) == [h EXCEPT !.fault = @ \/ p \notin h.live]

\* ---------------------------------------------------------------- add_block
add_block(h, big_num, val) ==
  LET cur_block == h.brk
      h1 == [malloc(h) EXCEPT
               !.blocks = @ @@ (cur_block :>
                                  [val |-> val, next |-> NULL, prev |-> NULL])]
      bn == h1.bnums[big_num]
      h2 == IF bn.least_significant = NULL
            THEN [h1 EXCEPT !.bnums[big_num].least_significant = cur_block,
                            !.bnums[big_num].most_significant = cur_block]
            ELSE [Deref(h1, bn.most_significant) EXCEPT
                            !.blocks[bn.most_significant].next = cur_block,
                            !.blocks[cur_block].prev = bn.most_significant,
                            !.bnums[big_num].most_significant = cur_block]
  IN  [Deref(h2, big_num) EXCEPT !.bnums[big_num].num_blocks = @ + 1]

\* -------------------------------------------------------------- Bnum_create
RECURSIVE CreateLoop(_, _, _)
CreateLoop(h, big_num, num) ==
  IF num > 0
  THEN CreateLoop(add_block(h, big_num, AndMask(U32(num))), big_num,
                  num \div BASE)
  ELSE h

\* mutant: stores the low and the high word of num whatever their value
Bnum_create_two_words(h, num) ==
  LET big_num == h.brk
      h1 == [malloc(h) EXCEPT
               !.bnums = @ @@ (big_num :>
                                 [num_blocks |-> 0, least_significant |-> NULL,
                                  most_significant |-> NULL])]
      h2 == add_block(h1, big_num, AndMask(U32(num)))
  IN  [h |-> add_block(h2, big_num, AndMask(U32(num \div BASE))),
       ret |-> big_num]

Bnum_create(h, num) ==
  LET big_num == h.brk
      h1 == [malloc(h) EXCEPT
               !.bnums = @ @@ (big_num :>
                                 [num_blocks |-> 0, least_significant |-> NULL,
                                  most_significant |-> NULL])]
  IN  IF num = 0 THEN [h |-> h1, ret |-> big_num]
      ELSE [h |-> CreateLoop(h1, big_num, num), ret |-> big_num]

\* ------------------------------------------------------------- Bnum_destroy
RECURSIVE DestroyLoop(_, _)
DestroyLoop(h, cur) ==
  IF cur # NULL
  THEN LET nxt == h.blocks[cur].next
       IN  DestroyLoop(free(Deref(h, cur), cur), nxt)
  ELSE h

Bnum_destroy(h, big_num) ==
  free(DestroyLoop(Deref(h, big_num), h.bnums[big_num].least_significant),
       big_num)

\* -------------------------------------------------------------- comparisons
\* C ints: 1 is true, 0 is false
Not(x) == IF x = 0 THEN 1 ELSE 0
CInt(b) == IF b THEN 1 ELSE 0

RECURSIVE EqLoop(_, _, _)
EqLoop(h, cur_block_a, cur_block_b) ==
  IF cur_block_a # NULL /\ cur_block_b # NULL
  THEN IF h.blocks[cur_block_a].val # h.blocks[cur_block_b].val THEN 0
       ELSE EqLoop(h, h.blocks[cur_block_a].next, h.blocks[cur_block_b].next)
  ELSE IF cur_block_a # NULL \/ cur_block_b # NULL THEN 0 ELSE 1

Bnum_eq(h, a, b) ==
  EqLoop(h, h.bnums[a].least_significant, h.bnums[b].least_significant)

Bnum_ne(h, a, b) == Not(Bnum_eq(h, a, b))

RECURSIVE LeLoop(_, _, _)
LeLoop(h, cur_block_a, cur_block_b) ==
  IF cur_block_a # NULL /\ cur_block_b # NULL
  THEN IF h.blocks[cur_block_a].val # h.blocks[cur_block_b].val
       THEN CInt(h.blocks[cur_block_a].val < h.blocks[cur_block_b].val)
       ELSE LeLoop(h, h.blocks[cur_block_a].prev, h.blocks[cur_block_b].prev)
  ELSE 1

\* mutant: no comparison of the block counts before the digits
Bnum_le_no_count(h, a, b) ==
  LeLoop(h, h.bnums[a].most_significant, h.bnums[b].most_significant)

Bnum_le(h, a, b) ==
  IF h.bnums[a].num_blocks # h.bnums[b].num_blocks
  THEN CInt(h.bnums[a].num_blocks < h.bnums[b].num_blocks)
  ELSE LeLoop(h, h.bnums[a].most_significant, h.bnums[b].most_significant)

RECURSIVE GeLoop(_, _, _)
GeLoop(h, cur_block_a, cur_block_b) ==
  IF cur_block_a # NULL /\ cur_block_b # NULL
  THEN IF h.blocks[cur_block_a].val # h.blocks[cur_block_b].val
       THEN CInt(h.blocks[cur_block_a].val > h.blocks[cur_block_b].val)
       ELSE GeLoop(h, h.blocks[cur_block_a].prev, h.blocks[cur_block_b].prev)
  ELSE 1

\* mutant: the block-count test copied from Bnum_le with its "<"
Bnum_ge_count_lt(h, a, b) ==
  IF h.bnums[a].num_blocks # h.bnums[b].num_blocks
  THEN CInt(h.bnums[a].num_blocks < h.bnums[b].num_blocks)
  ELSE GeLoop(h, h.bnums[a].most_significant, h.bnums[b].most_significant)

Bnum_ge(h, a, b) ==
  IF h.bnums[a].num_blocks # h.bnums[b].num_blocks
  THEN CInt(h.bnums[a].num_blocks > h.bnums[b].num_blocks)
  ELSE GeLoop(h, h.bnums[a].most_significant, h.bnums[b].most_significant)

Bnum_lt(h, a, b) == Not(Bnum_ge(h, a, b))

Bnum_gt(h, a, b) == Not(Bnum_le(h, a, b))

\* ----------------------------------------------------------------- Bnum_sum
\* first loop: both operands still have a block
RECURSIVE SumBoth(_, _, _, _, _)
SumBoth(h, sum, cur_block_a, cur_block_b, carry) ==
  IF cur_block_a # NULL /\ cur_block_b # NULL
  THEN LET h0 == Deref(Deref(h, cur_block_a), cur_block_b)
           block_sum == (h0.blocks[cur_block_a].val
                         + h0.blocks[cur_block_b].val + carry) % WORD64
           h1 == add_block(h0, sum, AndMask(U32(block_sum)))
       IN  SumBoth(h1, sum, h1.blocks[cur_block_a].next,
                   h1.blocks[cur_block_b].next, block_sum \div BASE)
  ELSE [h |-> h, cur_block_a |-> cur_block_a, cur_block_b |-> cur_block_b,
        carry |-> carry]

\* second loop: the rest of the longer operand
RECURSIVE SumRest(_, _, _, _)
SumRest(h, sum, cur_block, carry) ==
  IF cur_block # NULL
  THEN LET h0 == Deref(h, cur_block)
           block_sum == (h0.blocks[cur_block].val + carry) % WORD64
           h1 == add_block(h0, sum, AndMask(U32(block_sum)))
       IN  SumRest(h1, sum, h1.blocks[cur_block].next, block_sum \div BASE)
  ELSE h

Bnum_sum(h, a, b) ==
  LET c == Bnum_create(h, 0)
      sum == c.ret
      h0 == Deref(Deref(c.h, a), b)
      l1 == SumBoth(h0, sum, h0.bnums[a].least_significant,
                    h0.bnums[b].least_significant, 0)
      cur_block == IF l1.cur_block_a # NULL THEN l1.cur_block_a
                   ELSE l1.cur_block_b
  IN  [h |-> SumRest(l1.h, sum, cur_block, l1.carry), ret |-> sum]

\* ---------------------------------------------------------------- Bnum_mult
\* for (int i = 0; i < shift; i++) add_block(cur_product, 0)
RECURSIVE ShiftLoop(_, _, _, _)
ShiftLoop(h, cur_product, i, shift) ==
  IF i < shift
  THEN ShiftLoop(add_block(h, cur_product, U32(0)), cur_product, i + 1, shift)
  ELSE h

\* multiply one block of a by each block of b
RECURSIVE MultBlocks(_, _, _, _, _)
MultBlocks(h, cur_product, cur_block_a, cur_block_b, carry) ==
  IF cur_block_b # NULL
  THEN LET h0 == Deref(Deref(h, cur_block_a), cur_block_b)
           block_product == (h0.blocks[cur_block_a].val
                             * h0.blocks[cur_block_b].val + carry) % WORD64
           h1 == add_block(h0, cur_product, AndMask(U32(block_product)))
       IN  MultBlocks(h1, cur_product, cur_block_a,
                      h1.blocks[cur_block_b].next, block_product \div BASE)
  ELSE [h |-> h, carry |-> carry]

RECURSIVE MultLoop(_, _, _, _, _)
MultLoop(h, product, b, cur_block_a, shift) ==
  IF cur_block_a # NULL
  THEN LET c == Bnum_create(h, 0)
           cur_product == c.ret
           h1 == ShiftLoop(c.h, cur_product, 0, shift)
           h2 == Deref(h1, b)
           m == MultBlocks(h2, cur_product, cur_block_a,
                           h2.bnums[b].least_significant, 0)
           h3 == IF m.carry # 0
                 THEN add_block(m.h, cur_product, U32(m.carry))
                 ELSE m.h
           temp == product
           s == Bnum_sum(h3, temp, cur_product)
           h4 == Bnum_destroy(s.h, temp)
           h5 == Deref(Bnum_destroy(h4, cur_product), cur_block_a)
       IN  MultLoop(h5, s.ret, b, h5.blocks[cur_block_a].next, shift + 1)
  ELSE [h |-> h, ret |-> product]

Bnum_mult(h, a, b) ==
  LET c == Bnum_create(h, 0)
      h0 == Deref(c.h, a)
  IN  MultLoop(h0, c.ret, b, h0.bnums[a].least_significant, 0)

\* ----------------------------------------------------------------- Bnum_pow
\* mutant: the superseded accumulator is not destroyed
RECURSIVE PowLoop_leak(_, _, _, _, _)
PowLoop_leak(h, result, a, i, n) ==
  IF i < n
  THEN LET temp == result
           m == Bnum_mult(h, temp, a)
       IN  PowLoop_leak(m.h, m.ret, a, i + 1, n)
  ELSE [h |-> h, ret |-> result]

RECURSIVE PowLoop(_, _, _, _, _)
PowLoop(h, result, a, i, n) ==
  IF i < n
  THEN LET temp == result
           m == Bnum_mult(h, temp, a)
       IN  PowLoop(Bnum_destroy(m.h, temp), m.ret, a, i + 1, n)
  ELSE [h |-> h, ret |-> result]

\* mutant: a to the power 1 returned as a itself
Bnum_pow_alias(h, a, n) ==
  LET c == Bnum_create(h, 1)
  IN  IF n = 1 THEN [h |-> h, ret |-> a] ELSE PowLoop(c.h, c.ret, a, 0, n)

Bnum_pow(h, a, n) ==
  LET c == Bnum_create(h, 1)
  IN  PowLoop(c.h, c.ret, a, 0, n)

\* ------------------------------------------------------- reading the heap
\* the blocks of a Bnum, least significant first, following next
RECURSIVE ChainFrom(_, _)
ChainFrom(h, cur) ==
  IF cur = NULL THEN <<>> ELSE <<cur>> \o ChainFrom(h, h.blocks[cur].next)

Chain(h, bn) == ChainFrom(h, h.bnums[bn].least_significant)

\* the digits of a Bnum, least significant first
RECURSIVE DigitsFrom(_, _)
DigitsFrom(h, cur) ==
  IF cur = NULL THEN <<>>
  ELSE <<h.blocks[cur].val>> \o DigitsFrom(h, h.blocks[cur].next)

Digits(h, bn) == DigitsFrom(h, h.bnums[bn].least_significant)

\* sum of digit[i] * BASE^i
RECURSIVE Value(_)
Value(d) == IF d = <<>> THEN 0 ELSE d[1] + BASE * Value(Tail(d))

\* empty, or most significant digit nonzero
Canonical(d) == d = <<>> \/ d[Len(d)] # 0

Range(s) == {s[i] : i \in DOMAIN s}

Max(x, y) == IF x > y THEN x ELSE y

\* ------------------------------------------------------------------ caller
\* heap: the heap now; pre: the heap before the last call; regs: the Bnum
\* pointers the caller holds; last: the last call, its arguments and what
\* it returned; calls: number of calls made.
VARIABLES heap, pre, regs, last, calls

vars == <<heap, pre, regs, last, calls>>

NoCmp == [eq |-> 0, ne |-> 0, le |-> 0, lt |-> 0, ge |-> 0, gt |-> 0]

Call(op, a, b, n, ret, cmp) ==
  [op |-> op, a |-> a, b |-> b, n |-> n, ret |-> ret, cmp |-> cmp]

Init ==
  /\ heap = EmptyHeap
  /\ pre = EmptyHeap
  /\ regs = <<>>
  /\ last = Call("none", NULL, NULL, 0, NULL, NoCmp)
  /\ calls = 0

\* digit count of the i-th Bnum the caller holds
Blocks(i) == heap.bnums[regs[i]].num_blocks

\* In each call below r is what the library function returns: the heap it
\* leaves and the returned pointer.

CallCreate ==
  \E v \in 0..(WORD64 - 1) :
    /\ calls < MaxCalls
    /\ \E r \in {Bnum_create(heap, v)} :
         /\ heap' = r.h
         /\ regs' = Append(regs, r.ret)
         /\ last' = Call("create", NULL, NULL, v, r.ret, NoCmp)
    /\ pre' = heap
    /\ calls' = calls + 1

CallSum ==
  \E i \in DOMAIN regs, j \in DOMAIN regs :
    /\ calls < MaxCalls
    /\ Max(Blocks(i), Blocks(j)) < MaxBlocks
    /\ \E r \in {Bnum_sum(heap, regs[i], regs[j])} :
         /\ heap' = r.h
         /\ regs' = Append(regs, r.ret)
         /\ last' = Call("sum", regs[i], regs[j], 0, r.ret, NoCmp)
    /\ pre' = heap
    /\ calls' = calls + 1

CallMult ==
  \E i \in DOMAIN regs, j \in DOMAIN regs :
    /\ calls < MaxCalls
    /\ Blocks(i) + Blocks(j) <= MaxBlocks
    /\ \E r \in {Bnum_mult(heap, regs[i], regs[j])} :
         /\ heap' = r.h
         /\ regs' = Append(regs, r.ret)
         /\ last' = Call("mult", regs[i], regs[j], 0, r.ret, NoCmp)
    /\ pre' = heap
    /\ calls' = calls + 1

CallPow ==
  \E i \in DOMAIN regs, n \in 0..MaxExp :
    /\ calls < MaxCalls
    /\ n * Blocks(i) + 1 <= MaxBlocks
    /\ \E r \in {Bnum_pow(heap, regs[i], n)} :
         /\ heap' = r.h
         /\ regs' = Append(regs, r.ret)
         /\ last' = Call("pow", regs[i], NULL, n, r.ret, NoCmp)
    /\ pre' = heap
    /\ calls' = calls + 1

\* the caller releases a Bnum it holds and drops the pointer
CallDestroy ==
  \E i \in DOMAIN regs :
    /\ calls < MaxCalls
    /\ heap' = Bnum_destroy(heap, regs[i])
    /\ regs' = [k \in 1..(Len(regs) - 1) |->
                  IF k < i THEN regs[k] ELSE regs[k + 1]]
    /\ last' = Call("destroy", regs[i], NULL, 0, NULL, NoCmp)
    /\ pre' = heap
    /\ calls' = calls + 1

\* the caller evaluates the six comparisons of a pair it holds; they read
\* the heap only
CallCompare ==
  \E i \in DOMAIN regs, j \in DOMAIN regs :
    /\ calls < MaxCalls
    /\ last' = Call("compare", regs[i], regs[j], 0, NULL,
                    [eq |-> Bnum_eq(heap, regs[i], regs[j]),
                     ne |-> Bnum_ne(heap, regs[i], regs[j]),
                     le |-> Bnum_le(heap, regs[i], regs[j]),
                     lt |-> Bnum_lt(heap, regs[i], regs[j]),
                     ge |-> Bnum_ge(heap, regs[i], regs[j]),
                     gt |-> Bnum_gt(heap, regs[i], regs[j])])
    /\ pre' = heap
    /\ calls' = calls + 1
    /\ UNCHANGED <<heap, regs>>

Next ==
  \/ CallCreate
  \/ CallSum
  \/ CallMult
  \/ CallPow
  \/ CallDestroy
  \/ CallCompare

Spec == Init /\ [][Next]_vars

\* ------------------------------------------------------------------ claims
\* operands of the last call as they were before it, and its result
ArgA == Digits(pre, last.a)
ArgB == Digits(pre, last.b)
Result == Digits(heap, last.ret)

\* C1: for canonical a and b the digits Bnum_sum returns have the value
\* value(a) + value(b); a carry left after the longer operand becomes one
\* more digit, so BASE-1 plus 1 is the two digits [0, 1].
C1_SumIsArithmeticSum ==
  (last.op = "sum" /\ Canonical(ArgA) /\ Canonical(ArgB)) =>
    /\ Value(Result) = Value(ArgA) + Value(ArgB)
    /\ (ArgA = <<BLOCK_MASK>> /\ ArgB = <<1>>) => Result = <<0, 1>>

\* C2: for canonical a and b the digits Bnum_mult returns have the value
\* value(a) * value(b), also when folding a partial product into the
\* running total carries out of the total's top digit.
C2_MultIsArithmeticProduct ==
  (last.op = "mult" /\ Canonical(ArgA) /\ Canonical(ArgB)) =>
    Value(Result) = Value(ArgA) * Value(ArgB)

\* C3: for canonical a, Bnum_mult(a, one) is Bnum_eq to a, and a product
\* with zero on either side is Bnum_eq to zero, the empty sequence with
\* num_blocks 0.
C3_MultIdentityAndZero ==
  (last.op = "mult" /\ Canonical(ArgA) /\ Canonical(ArgB)) =>
    /\ ArgB = <<1>> => Bnum_eq(heap, last.ret, last.a) = 1
    /\ ArgB = <<>> => /\ Bnum_eq(heap, last.ret, last.b) = 1
                      /\ heap.bnums[last.ret].num_blocks = 0
    /\ ArgA = <<>> => /\ Bnum_eq(heap, last.ret, last.a) = 1
                      /\ heap.bnums[last.ret].num_blocks = 0

\* C4: every big integer the caller obtained from Bnum_create, Bnum_sum,
\* Bnum_mult and Bnum_pow is canonical: empty, or its most significant
\* digit is not zero.
C4_CanonicalForm ==
  \A i \in DOMAIN regs : Canonical(Digits(heap, regs[i]))

\* C5: of Bnum_lt, Bnum_eq, Bnum_gt exactly one is true for any pair, and
\* Bnum_le is true exactly when Bnum_lt or Bnum_eq is.
C5_Trichotomy ==
  last.op = "compare" =>
    /\ last.cmp.lt + last.cmp.eq + last.cmp.gt = 1
    /\ (last.cmp.le = 1) <=> (last.cmp.lt = 1 \/ last.cmp.eq = 1)

C5_Witness ==
  /\ last.op = "compare"
  /\ last.a # last.b
  /\ Len(ArgA) = Len(ArgB)
  /\ Len(ArgA) = 2
  /\ ArgA[2] = ArgB[2]
  /\ last.cmp.gt = 1

\* C6: on canonical operands each of the six comparisons returns the truth
\* value of the numeric comparison of the two values.
C6_NumericOrder ==
  (last.op = "compare" /\ Canonical(ArgA) /\ Canonical(ArgB)) =>
    /\ (last.cmp.le = 1) <=> (Value(ArgA) <= Value(ArgB))
    /\ (last.cmp.ge = 1) <=> (Value(ArgA) >= Value(ArgB))
    /\ (last.cmp.lt = 1) <=> (Value(ArgA) < Value(ArgB))
    /\ (last.cmp.gt = 1) <=> (Value(ArgA) > Value(ArgB))
    /\ (last.cmp.eq = 1) <=> (Value(ArgA) = Value(ArgB))
    /\ (last.cmp.ne = 1) <=> (Value(ArgA) # Value(ArgB))
    /\ last.cmp \in [{"eq", "ne", "le", "lt", "ge", "gt"} -> {0, 1}]

\* more digits but a smaller top digit: the count decides
C6_Witness ==
  /\ last.op = "compare"
  /\ Canonical(ArgA) /\ Canonical(ArgB)
  /\ Len(ArgA) = 2 /\ Len(ArgB) = 1
  /\ ArgA[2] < ArgB[1]
  /\ last.cmp.gt = 1 /\ last.cmp.le = 0

\* C7: for canonical a and exponents m, n >= 0, Bnum_pow(a, m + n) is
\* Bnum_eq to Bnum_mult(Bnum_pow(a, m), Bnum_pow(a, n)).
C7_PowerOfSum ==
  (last.op = "pow" /\ Canonical(ArgA)) =>
    \A m \in 0..last.n :
      LET pm == Bnum_pow(heap, last.a, m)
          pn == Bnum_pow(pm.h, last.a, last.n - m)
          pr == Bnum_mult(pn.h, pm.ret, pn.ret)
      IN  Bnum_eq(pr.h, last.ret, pr.ret) = 1

\* C8: Bnum_create(v) returns digits of value v with no most significant
\* zero digit; Bnum_create(0) returns the empty sequence, num_blocks 0.
C8_CreateRoundTrip ==
  last.op = "create" =>
    /\ Value(Result) = last.n
    /\ Canonical(Result)
    /\ heap.bnums[last.ret].num_blocks = Len(Result)
    /\ last.n = 0 => heap.bnums[last.ret].num_blocks = 0

C8_Witness ==
  /\ last.op = "create"
  /\ last.n >= BASE
  /\ Result[1] = 0
  /\ Len(Result) = 2

\* C9: Bnum_sum, Bnum_mult, Bnum_pow and the comparisons leave every
\* struct that was live before the call live and unchanged, and the Bnum
\* that Bnum_sum, Bnum_mult or Bnum_pow returns, with all its blocks, is
\* storage that was not live before the call.
C9_OperandsKeptResultFresh ==
  last.op \in {"sum", "mult", "pow", "compare"} =>
    /\ \A p \in pre.live :
         /\ p \in heap.live
         /\ p \in DOMAIN pre.bnums => heap.bnums[p] = pre.bnums[p]
         /\ p \in DOMAIN pre.blocks => heap.blocks[p] = pre.blocks[p]
    /\ last.op # "compare" =>
         /\ last.ret \in heap.live \ pre.live
         /\ Range(Chain(heap, last.ret)) \subseteq heap.live \ pre.live
         /\ Range(Chain(heap, last.ret)) \cap Range(Chain(heap, last.a)) = {}

\* both operands the same object, or Bnum_pow with n = 0
C9_Witness ==
  \/ /\ last.op \in {"sum", "mult"}
     /\ last.a = last.b
     /\ Len(ArgA) = 2
     /\ Result # <<>>
  \/ /\ last.op = "pow"
     /\ last.n = 0
     /\ Len(ArgA) = 2

\* the structs allocated during the last call
AllocatedByCall == pre.brk..(heap.brk - 1)

\* the struct of the returned Bnum and its blocks
ResultStorage == {last.ret} \cup Range(Chain(heap, last.ret))

\* C10: in Bnum_mult and Bnum_pow every intermediate Bnum is released
\* exactly once and never used after its release; on return the live
\* structs are those live before the call and the result.
C10_IntermediatesReleasedOnce ==
  last.op \in {"mult", "pow"} =>
    /\ ~heap.fault
    /\ \A p \in DOMAIN heap.frees : heap.frees[p] = 1
    /\ \A p \in AllocatedByCall \ ResultStorage :
         p \in DOMAIN heap.frees /\ heap.frees[p] = 1
    /\ heap.live = pre.live \cup ResultStorage

C10_Witness ==
  /\ last.op = "pow"
  /\ last.n >= 2
  /\ Len(ArgA) = 2
  /\ AllocatedByCall \ ResultStorage # {}
  /\ heap.live = pre.live \cup ResultStorage

====
